---- MODULE Spec2Model ----
(***************************************************************************)
(* Polyomino tiling as exact cover: the geometry of tiles, the             *)
(* construction of the exact-cover matrix (Game::build_matrix), the lazy   *)
(* exact-cover search behind Game::solve, and the JsGame wrapper           *)
(* (solve / solveAll / solution).                                          *)
(*                                                                         *)
(* A text is a sequence of one-character strings.  A name is a sequence of *)
(* byte values, compared as Rust compares String.  A Point is a record     *)
(* [x, y]; a Tile is a record [name, points].                              *)
(***************************************************************************)
EXTENDS Integers, Sequences, FiniteSets, TLC

VARIABLES
    entries,    \* the parsed document handed to from_yaml: <<name, text>> pairs
    pc,         \* "start" | "game" | "built" | "aborted" | "looping"
    board,      \* Game.board
    tiles,      \* Game.tiles
    m,          \* the matrix: one record per row, in insertion order
    n_cols,     \* the matrix's column count
    search,     \* the solver's saved search state
    solutions,  \* JsGame.solutions
    ret,        \* value returned by the last solve()/solveAll() call
    decoded,    \* value returned by the last solution(index) call
    op          \* the last operation performed

vars == <<entries, pc, board, tiles, m, n_cols, search, solutions, ret, decoded, op>>

----------------------------------------------------------------------------
(* Bounds and input alphabets *)

MaxPieces == 2
HashSeeds == 3
MaxLoop == 30

NameA == <<65>>
NameB == <<66>>
BoardName == <<66, 111, 97, 114, 100>>
PieceNames == {NameA, NameB}

NL == "\n"

BoardTexts ==
    { <<"x", "x", NL, "x", "x">>,
      <<"x", "x", "x", NL, "x", "x", "x">>,
      <<"-", "x", NL, "x", "x", "x">>,
      <<" ", " ", "x", "x", NL, " ", " ", "x", NL>>,
      <<>>,
      <<"-", "-", NL, "-">> }

PieceTexts ==
    { <<"x">>,
      <<"x", "x", NL, "x">>,
      <<"x", "x", "x", NL, "x">> }

----------------------------------------------------------------------------
(* Point *)

PointNew(x, y) == [x |-> x, y |-> y]

PointNeg(p) == [x |-> -p.x, y |-> -p.y]

PointSub(p, q) == [x |-> p.x - q.x, y |-> p.y - q.y]

\* derived Ord on Point: x first, then y
PointLess(p, q) == p.x < q.x \/ (p.x = q.x /\ p.y < q.y)

----------------------------------------------------------------------------
(* Orderings of Vec<Point>, String and (Tile, usize) *)

RECURSIVE PointsLess(_, _)
PointsLess(a, b) ==
    IF b = <<>> THEN FALSE
    ELSE IF a = <<>> THEN TRUE
    ELSE IF PointLess(Head(a), Head(b)) THEN TRUE
    ELSE IF PointLess(Head(b), Head(a)) THEN FALSE
    ELSE PointsLess(Tail(a), Tail(b))

RECURSIVE NameLess(_, _)
NameLess(a, b) ==
    IF b = <<>> THEN FALSE
    ELSE IF a = <<>> THEN TRUE
    ELSE IF Head(a) < Head(b) THEN TRUE
    ELSE IF Head(b) < Head(a) THEN FALSE
    ELSE NameLess(Tail(a), Tail(b))

\* derived Ord on Tile: name first, then points
TileLess(s, t) ==
    NameLess(s.name, t.name) \/ (s.name = t.name /\ PointsLess(s.points, t.points))

\* variant: the index compared before the tile, as for a tuple (usize, Tile)
UniqLessIndexFirst(u, v) ==
    u.index < v.index \/ (u.index = v.index /\ TileLess(u.tile, v.tile))

\* Ord on the tuple (Tile, usize): the tile first, then the index
UniqLess(u, v) ==
    TileLess(u.tile, v.tile) \/ (u.tile = v.tile /\ u.index < v.index)

----------------------------------------------------------------------------
(* Tile *)

TileNew(name) == [name |-> name, points |-> <<>>]

TileLen(t) == Len(t.points)

\* variant: the reflection left out
TileMirrorSkipped(t) == t

TileMirror(t) ==
    [t EXCEPT !.points = [k \in 1..Len(t.points) |->
                            [x |-> -t.points[k].x, y |-> t.points[k].y]]]

TileRotate(t) ==
    [t EXCEPT !.points = [k \in 1..Len(t.points) |->
                            [x |-> t.points[k].y, y |-> -t.points[k].x]]]

TileTranslate(t, offset) ==
    [t EXCEPT !.points = [k \in 1..Len(t.points) |->
                            [x |-> t.points[k].x + offset.x,
                             y |-> t.points[k].y + offset.y]]]

\* offset() reads points[0] first: it panics on a tile without points
OffsetPanics(t) == Len(t.points) = 0

MinOf(S) == CHOOSE v \in S : \A w \in S : v <= w

MaxOf(S) == CHOOSE v \in S : \A w \in S : w <= v

TileOffset(t) ==
    PointNew(MinOf({t.points[k].x : k \in 1..Len(t.points)}),
             MinOf({t.points[k].y : k \in 1..Len(t.points)}))

\* position of the first point equal to `point`, 0-based; -1 stands for None
TileIndex(t, point) ==
    IF \E k \in 1..Len(t.points) : t.points[k] = point
    THEN MinOf({k \in 1..Len(t.points) : t.points[k] = point}) - 1
    ELSE -1

TileSize(t) ==
    IF Len(t.points) = 0 THEN [width |-> 0, height |-> 0]
    ELSE LET xs == {t.points[k].x : k \in 1..Len(t.points)}
             ys == {t.points[k].y : k \in 1..Len(t.points)}
         IN [width |-> MaxOf(xs) - MinOf(xs) + 1,
             height |-> MaxOf(ys) - MinOf(ys) + 1]

\* the scan of from_str: the points of contents[i..], with the cursor at (row, col)
RECURSIVE ScanPoints(_, _, _, _)
ScanPoints(contents, i, row, col) ==
    IF i > Len(contents) THEN <<>>
    ELSE IF contents[i] = "x"
         THEN <<PointNew(col, row)>> \o ScanPoints(contents, i + 1, row, col + 1)
    ELSE IF contents[i] = NL
         THEN ScanPoints(contents, i + 1, row + 1, 0)
    ELSE ScanPoints(contents, i + 1, row, col + 1)

\* from_str: [panic, tile]; the final translate(-offset()) panics when no 'x' was read
TileFromStr(name, contents) ==
    LET scanned == [name |-> name, points |-> ScanPoints(contents, 1, 0, 0)]
    IN IF OffsetPanics(scanned)
       THEN [panic |-> TRUE, tile |-> scanned]
       ELSE [panic |-> FALSE,
             tile |-> TileTranslate(scanned, PointNeg(TileOffset(scanned)))]

\* Vec::sort on points (a stable sort of a short vector: insertion into place)
RECURSIVE InsertPoint(_, _)
InsertPoint(s, p) ==
    IF s = <<>> THEN <<p>>
    ELSE IF PointLess(p, Head(s)) THEN <<p>> \o s
    ELSE <<Head(s)>> \o InsertPoint(Tail(s), p)

RECURSIVE SortPoints(_)
SortPoints(s) ==
    IF s = <<>> THEN <<>>
    ELSE InsertPoint(SortPoints(SubSeq(s, 1, Len(s) - 1)), s[Len(s)])

----------------------------------------------------------------------------
(* Game::from_yaml *)

\* the loop over the parsed entries: a `Board` entry replaces the board, any
\* other entry appends a tile; Tile::from_str may panic on the way
RECURSIVE YamlFold(_, _, _)
YamlFold(contents, k, game) ==
    IF k > Len(contents) THEN game
    ELSE LET name == contents[k][1]
             made == TileFromStr(name, contents[k][2])
         IN IF made.panic THEN [game EXCEPT !.panic = TRUE]
            ELSE IF name = BoardName
                 THEN YamlFold(contents, k + 1, [game EXCEPT !.board = made.tile])
            ELSE YamlFold(contents, k + 1,
                          [game EXCEPT !.tiles = Append(@, made.tile)])

GameFromYaml(contents) ==
    YamlFold(contents, 1,
             [panic |-> FALSE, board |-> TileNew(BoardName), tiles |-> <<>>])

GameLen(b) == Len(b.points)

----------------------------------------------------------------------------
(* Game::build_matrix *)

Transforms == 8
MirrorAt == 4

\* variant: the points left unsorted after the transform
OrientStepUnsorted(t, o) ==
    LET r == TileRotate(t)
        f == IF o = MirrorAt THEN TileMirror(r) ELSE r
    IN TileTranslate(f, PointNeg(TileOffset(f)))

\* one pass of the loop body over o: rotate, mirror when o = 4, move to the
\* origin, sort the points
OrientStep(t, o) ==
    LET r == TileRotate(t)
        f == IF o = MirrorAt THEN TileMirror(r) ELSE r
        z == TileTranslate(f, PointNeg(TileOffset(f)))
    IN [z EXCEPT !.points = SortPoints(z.points)]

\* the tiles inserted for o, o+1, ..., 7, starting from t
RECURSIVE Orientations(_, _)
Orientations(t, o) ==
    IF o >= Transforms THEN <<>>
    ELSE LET n == OrientStep(t, o)
         IN <<n>> \o Orientations(n, o + 1)

\* every (tile, index) pair handed to uniqs.insert, in program order
RECURSIVE Inserted(_, _)
Inserted(ts, k) ==
    IF k > Len(ts) THEN <<>>
    ELSE LET os == Orientations(ts[k], 0)
         IN [j \in 1..Len(os) |-> [tile |-> os[j], index |-> k - 1]]
            \o Inserted(ts, k + 1)

\* the HashSet: equal pairs are stored once
UniqSet(ts) == LET ins == Inserted(ts, 1) IN {ins[j] : j \in 1..Len(ins)}

RECURSIVE KeepFirst(_, _)
KeepFirst(s, seen) ==
    IF s = <<>> THEN <<>>
    ELSE IF Head(s) \in seen THEN KeepFirst(Tail(s), seen)
    ELSE <<Head(s)>> \o KeepFirst(Tail(s), seen \cup {Head(s)})

Reverse(s) == [j \in 1..Len(s) |-> s[Len(s) + 1 - j]]

RotateLeft(s, k) ==
    IF Len(s) = 0 THEN s
    ELSE [j \in 1..Len(s) |-> s[((j - 1 + k) % Len(s)) + 1]]

\* uniqs.iter(): a HashSet yields its elements in an order the program does not
\* control; `seed` selects one such order (a rotation of the stored elements,
\* read backwards for odd seeds)
HashIter(ts, seed) ==
    LET stored == KeepFirst(Inserted(ts, 1), {})
        turned == RotateLeft(stored, seed)
    IN IF seed % 2 = 1 THEN Reverse(turned) ELSE turned

\* uniqs.sort()
RECURSIVE InsertUniq(_, _)
InsertUniq(s, u) ==
    IF s = <<>> THEN <<u>>
    ELSE IF UniqLess(u, Head(s)) THEN <<u>> \o s
    ELSE <<Head(s)>> \o InsertUniq(Tail(s), u)

\* variant: the sort left out, the hash set's order kept
SortUniqsSkipped(s) == s

RECURSIVE SortUniqs(_)
SortUniqs(s) ==
    IF s = <<>> THEN <<>>
    ELSE InsertUniq(SortUniqs(SubSeq(s, 1, Len(s) - 1)), s[Len(s)])

\* "order tiles predictably"
OrderedUniqs(ts, seed) == SortUniqs(HashIter(ts, seed))

BoardPoints(b) == {b.points[k] : k \in 1..Len(b.points)}

\* variant: only the last point decides the fit
ContainsLast(board_points, t) == t.points[Len(t.points)] \in board_points

\* the fit test: every point of the translated tile is a board point
Contains(board_points, t) == \A k \in 1..Len(t.points) : t.points[k] \in board_points

\* variant: the piece column pushed before the cell indices
BuildRowPieceFirst(b, t, index) ==
    [k \in 1..(Len(t.points) + 1) |->
        IF k = 1 THEN TileLen(b) + index
        ELSE TileIndex(b, t.points[k - 1])]

\* the row of one placement: the board index of each point, then the piece column
BuildRow(b, t, index) ==
    [k \in 1..(Len(t.points) + 1) |->
        IF k <= Len(t.points) THEN TileIndex(b, t.points[k])
        ELSE TileLen(b) + index]

\* the body of the (i, j) loops for one translation: the row added, if any.
\* Beside the row itself each record keeps where the row came from.
Placement(b, u, i, j) ==
    LET t == TileTranslate(u.tile, PointSub(PointNew(i, j), TileOffset(u.tile)))
    IN IF ~Contains(BoardPoints(b), t) THEN <<>>
       ELSE << [row |-> BuildRow(b, t, u.index),
                index |-> u.index,
                name |-> u.tile.name,
                orient |-> u.tile.points,
                dx |-> i,
                dy |-> j,
                cells |-> {t.points[k] : k \in 1..Len(t.points)}] >>

\* for j in 0..height
RECURSIVE RowsInner(_, _, _, _, _)
RowsInner(b, u, i, j, size) ==
    IF j >= size.height THEN <<>>
    ELSE Placement(b, u, i, j) \o RowsInner(b, u, i, j + 1, size)

\* variant: the loop over i stops one column early
RECURSIVE RowsOuterShort(_, _, _, _)
RowsOuterShort(b, u, i, size) ==
    IF i >= size.width - 1 THEN <<>>
    ELSE RowsInner(b, u, i, 0, size) \o RowsOuterShort(b, u, i + 1, size)

\* for i in 0..width
RECURSIVE RowsOuter(_, _, _, _)
RowsOuter(b, u, i, size) ==
    IF i >= size.width THEN <<>>
    ELSE RowsInner(b, u, i, 0, size) \o RowsOuter(b, u, i + 1, size)

\* for (tile, index) in uniqs
RECURSIVE RowsOfUniqs(_, _, _)
RowsOfUniqs(b, us, k) ==
    IF k > Len(us) THEN <<>>
    ELSE RowsOuter(b, us[k], 0, TileSize(b)) \o RowsOfUniqs(b, us, k + 1)

NCols(b, ts) == TileLen(b) + Len(ts)

BuildMatrixRows(b, ts, seed) == RowsOfUniqs(b, OrderedUniqs(ts, seed), 1)

----------------------------------------------------------------------------
(* The exact-cover matrix and its lazy search (Algorithm X, fewest-ones     *)
(* column first).  A matrix is [rows, n_cols]; a row identifier is the      *)
(* 0-based position of the row.  The saved search state is the stack of     *)
(* branching frames [col, cands, i]: the column branched on, the rows of    *)
(* that column at the time (top to bottom) and the one now selected.        *)

\* Game::row(r): the column indices stored for row r
MatrixRow(mat, r) == mat.rows[r + 1]

RowCols(mat, r) == {mat.rows[r + 1][k] : k \in 1..Len(mat.rows[r + 1])}

RowIds(mat) == 0..(Len(mat.rows) - 1)

Selected(stack) == [k \in 1..Len(stack) |-> stack[k].cands[stack[k].i]]

\* the columns covered by the selected rows
CoveredCols(mat, stack) == UNION {RowCols(mat, stack[k].cands[stack[k].i]) : k \in 1..Len(stack)}

\* the headers still linked to the root
ActiveCols(mat, stack) == (0..(mat.n_cols - 1)) \ CoveredCols(mat, stack)

\* the rows still linked: those touching no covered column
ActiveRows(mat, stack) ==
    {r \in RowIds(mat) : RowCols(mat, r) \cap CoveredCols(mat, stack) = {}}

ColumnRows(mat, stack, c) == {r \in ActiveRows(mat, stack) : c \in RowCols(mat, r)}

\* smallest size, ties to the smaller column index
ChooseColumn(mat, stack) ==
    LET act == ActiveCols(mat, stack)
        live == ActiveRows(mat, stack)
        size == [c \in act |-> Cardinality({r \in live : c \in RowCols(mat, r)})]
    IN CHOOSE c \in act :
          \A d \in act : size[c] < size[d] \/ (size[c] = size[d] /\ c <= d)

RECURSIVE Ascending(_)
Ascending(S) ==
    IF S = {} THEN <<>>
    ELSE LET lo == MinOf(S) IN <<lo>> \o Ascending(S \ {lo})

RECURSIVE Descend(_, _)
RECURSIVE Backtrack(_, _)

\* enter a search node with the rows of `stack` selected
Descend(mat, stack) ==
    IF ActiveCols(mat, stack) = {}
    THEN [search |-> [status |-> "Running", stack |-> stack],
          found |-> TRUE, solution |-> Selected(stack)]
    ELSE LET c == ChooseColumn(mat, stack)
             cands == Ascending(ColumnRows(mat, stack, c))
         IN IF cands = <<>> THEN Backtrack(mat, stack)
            ELSE Descend(mat, Append(stack, [col |-> c, cands |-> cands, i |-> 1]))

\* leave the deepest node: take its next row, or pop it
Backtrack(mat, stack) ==
    IF stack = <<>>
    THEN [search |-> [status |-> "Exhausted", stack |-> <<>>],
          found |-> FALSE, solution |-> <<>>]
    ELSE LET n == Len(stack)
             top == stack[n]
         IN IF top.i < Len(top.cands)
            THEN Descend(mat, [stack EXCEPT ![n].i = top.i + 1])
            ELSE Backtrack(mat, SubSeq(stack, 1, n - 1))

FreshSearch == [status |-> "Fresh", stack |-> <<>>]

\* next_solution(): resume from the saved state
NextSolution(mat, srch) ==
    IF srch.status = "Fresh" THEN Descend(mat, <<>>)
    ELSE IF srch.status = "Running" THEN Backtrack(mat, srch.stack)
    ELSE [search |-> srch, found |-> FALSE, solution |-> <<>>]

----------------------------------------------------------------------------
(* JsGame *)

\* Matrix::new(n) followed by add_row for every row built
MatrixOf(rowRecords, n) ==
    [rows |-> [k \in 1..Len(rowRecords) |-> rowRecords[k].row], n_cols |-> n]

\* variant: the result pushed whether or not a solution was found
PushAlways(sols, r) == Append(sols, r.solution)

\* if let Some(solution) = solution { self.solutions.push(solution) }
PushIfSome(sols, r) == IF r.found THEN Append(sols, r.solution) ELSE sols

\* JsGame::solve on the state js = [search, solutions]; the value returned is
\* the length of the new solution list
JsGameSolve(mat, js) ==
    LET r == NextSolution(mat, js.search)
    IN [search |-> r.search, solutions |-> PushIfSome(js.solutions, r)]

\* variant: the loop left as soon as the count has changed
RECURSIVE SolveAllLoopInverted(_, _, _, _)
SolveAllLoopInverted(mat, js, previous_count, fuel) ==
    LET next == JsGameSolve(mat, js)
        count == Len(next.solutions)
    IN IF count # previous_count THEN [js |-> next, terminated |-> TRUE]
       ELSE IF fuel = 0 THEN [js |-> next, terminated |-> FALSE]
       ELSE SolveAllLoopInverted(mat, next, count, fuel - 1)

\* the loop of solveAll; `fuel` caps the number of passes explored
RECURSIVE SolveAllLoop(_, _, _, _)
SolveAllLoop(mat, js, previous_count, fuel) ==
    LET next == JsGameSolve(mat, js)
        count == Len(next.solutions)
    IN IF count = previous_count THEN [js |-> next, terminated |-> TRUE]
       ELSE IF fuel = 0 THEN [js |-> next, terminated |-> FALSE]
       ELSE SolveAllLoop(mat, next, count, fuel - 1)

JsGameSolveAll(mat, js) == SolveAllLoop(mat, JsGameSolve(mat, js), 0, MaxLoop)

\* usize subtraction.  With overflow checks a negative result panics; without
\* them it wraps to 2^w + (a - b), written here as the negative number a - b:
\* every use below is as an index, where 2^w - k is out of any vector's bounds.
UsizeSub(a, b, checks) == [panic |-> checks /\ a < b, value |-> a - b]

\* the inner loop of solution(): board[indices[i] - 1] = tile_idx for i = k..
RECURSIVE DecodeCells(_, _, _, _, _)
DecodeCells(out, indices, k, tile_idx, checks) ==
    IF k > Len(indices) - 1 THEN [panic |-> FALSE, board |-> out]
    ELSE LET at == UsizeSub(indices[k], 1, checks)
         IN IF at.panic \/ at.value < 0 \/ at.value >= Len(out)
            THEN [panic |-> TRUE, board |-> out]
            ELSE DecodeCells([out EXCEPT ![at.value + 1] = tile_idx],
                             indices, k + 1, tile_idx, checks)

\* the outer loop of solution(): one pass per row of the solution
RECURSIVE DecodeRows(_, _, _, _, _, _)
DecodeRows(out, mat, n, sol, k, checks) ==
    IF k > Len(sol) THEN [panic |-> FALSE, board |-> out]
    ELSE LET indices == MatrixRow(mat, sol[k])
             less1 == UsizeSub(indices[Len(indices)], 1, checks)
             tile_idx == UsizeSub(less1.value, n, checks)
         IN IF Len(indices) = 0 \/ less1.panic \/ tile_idx.panic
            THEN [panic |-> TRUE, board |-> out]
            ELSE LET done == DecodeCells(out, indices, 1, tile_idx.value, checks)
                 IN IF done.panic THEN done
                    ELSE DecodeRows(done.board, mat, n, sol, k + 1, checks)

\* JsGame::solution(index)
JsGameSolution(mat, n, sols, index, checks) ==
    IF index >= Len(sols) THEN [panic |-> TRUE, board |-> <<>>]
    ELSE DecodeRows([k \in 1..n |-> 0], mat, n, sols[index + 1], 1, checks)

----------------------------------------------------------------------------
(* The state machine *)

PieceEntries == PieceNames \X PieceTexts

PieceLists == UNION {[1..n -> PieceEntries] : n \in 0..MaxPieces}

\* documents with or without a Board entry, followed by the pieces
Documents ==
    PieceLists \cup {<<<<BoardName, b>>>> \o ps : b \in BoardTexts, ps \in PieceLists}

NoTile == TileNew(<<>>)

Init ==
    /\ entries \in Documents
    /\ pc = "start"
    /\ board = NoTile
    /\ tiles = <<>>
    /\ m = <<>>
    /\ n_cols = 0
    /\ search = FreshSearch
    /\ solutions = <<>>
    /\ ret = 0
    /\ decoded = <<>>
    /\ op = "init"

\* JsGame::fromYaml
FromYaml ==
    /\ pc = "start"
    /\ LET game == GameFromYaml(entries)
       IN IF game.panic
          THEN /\ pc' = "aborted"
               /\ UNCHANGED <<board, tiles>>
          ELSE /\ pc' = "game"
               /\ board' = game.board
               /\ tiles' = game.tiles
    /\ solutions' = <<>>
    /\ op' = "from_yaml"
    /\ UNCHANGED <<entries, m, n_cols, search, ret, decoded>>

\* Game::build_matrix; the hash set's iteration order is not the program's choice
BuildMatrix ==
    /\ pc = "game"
    /\ \E seed \in 0..(HashSeeds - 1) :
          m' = BuildMatrixRows(board, tiles, seed)
    /\ n_cols' = NCols(board, tiles)
    /\ search' = FreshSearch
    /\ pc' = "built"
    /\ op' = "build_matrix"
    /\ UNCHANGED <<entries, board, tiles, solutions, ret, decoded>>

\* JsGame::solve
Solve ==
    /\ pc = "built"
    /\ LET js == JsGameSolve(MatrixOf(m, n_cols),
                             [search |-> search, solutions |-> solutions])
       IN /\ search' = js.search
          /\ solutions' = js.solutions
          /\ ret' = Len(js.solutions)
    /\ op' = "solve"
    /\ UNCHANGED <<entries, pc, board, tiles, m, n_cols, decoded>>

\* JsGame::solveAll
SolveAll ==
    /\ pc = "built"
    /\ LET res == JsGameSolveAll(MatrixOf(m, n_cols),
                                 [search |-> search, solutions |-> solutions])
       IN /\ search' = res.js.search
          /\ solutions' = res.js.solutions
          /\ ret' = Len(res.js.solutions)
          /\ pc' = IF res.terminated THEN "built" ELSE "looping"
    /\ op' = "solveAll"
    /\ UNCHANGED <<entries, board, tiles, m, n_cols, decoded>>

\* JsGame::solution(index), built with or without overflow checks
Solution ==
    /\ pc = "built"
    /\ \E index \in 0..(Len(solutions) - 1), checks \in BOOLEAN :
          LET res == JsGameSolution(MatrixOf(m, n_cols), GameLen(board),
                                    solutions, index, checks)
          IN /\ decoded' = IF res.panic THEN decoded ELSE res.board
             /\ pc' = IF res.panic THEN "aborted" ELSE "built"
    /\ op' = "solution"
    /\ UNCHANGED <<entries, board, tiles, m, n_cols, search, solutions, ret>>

Next == FromYaml \/ BuildMatrix \/ Solve \/ SolveAll \/ Solution

Spec == Init /\ [][Next]_vars

----------------------------------------------------------------------------
(* Vocabulary of the properties *)

Mat == MatrixOf(m, n_cols)

BoardCells == GameLen(board)

Pieces == Len(tiles)

Built == pc = "built" \/ (pc \in {"aborted", "looping"} /\ op \in {"solution", "solveAll"})

\* how many positions of the rows of `sol` hold column c
Occurrences(sol, c) ==
    Cardinality({<<k, j>> \in (1..Len(sol)) \X (1..(BoardCells + 1)) :
                    /\ j <= Len(MatrixRow(Mat, sol[k]))
                    /\ MatrixRow(Mat, sol[k])[j] = c})

RowEntries(sol) ==
    Cardinality({<<k, j>> \in (1..Len(sol)) \X (1..(BoardCells + 1)) :
                    j <= Len(MatrixRow(Mat, sol[k]))})

\* the selected rows whose placement lies on the board point p / belongs to piece i
RowsOver(sol, p) == {k \in 1..Len(sol) : p \in m[sol[k] + 1].cells}

RowsOfPiece(sol, i) == {k \in 1..Len(sol) : m[sol[k] + 1].index = i}

IsExactCover(sol) ==
    /\ \A c \in 0..(BoardCells + Pieces - 1) : Occurrences(sol, c) = 1
    /\ RowEntries(sol) = BoardCells + Pieces
    /\ \A k \in 1..BoardCells : Cardinality(RowsOver(sol, board.points[k])) = 1
    /\ \A i \in 0..(Pieces - 1) : Cardinality(RowsOfPiece(sol, i)) = 1

\* C1: every solution the solver emits for a built matrix holds every column
\* 0..N+P-1 exactly once over its rows: each board cell lies under exactly one
\* selected placement and each piece is used exactly once.
C1_SolutionsAreExactCovers ==
    Built => \A s \in 1..Len(solutions) : IsExactCover(solutions[s])

C1_Witness ==
    /\ pc = "built"
    /\ Len(solutions) >= 2
    /\ BoardCells = 4
    /\ Pieces = 2

----------------------------------------------------------------------------
(* Row order and row layout *)

\* lexicographic order on tuples of integers
RECURSIVE IntsLess(_, _)
IntsLess(a, b) ==
    IF b = <<>> THEN FALSE
    ELSE IF a = <<>> THEN TRUE
    ELSE IF Head(a) < Head(b) THEN TRUE
    ELSE IF Head(b) < Head(a) THEN FALSE
    ELSE IntsLess(Tail(a), Tail(b))

\* row r comes before row s in the order (piece_index, orientation, dy, dx)
ClaimedBefore(r, s) ==
    \/ r.index < s.index
    \/ r.index = s.index /\ PointsLess(r.orient, s.orient)
    \/ r.index = s.index /\ r.orient = s.orient /\ IntsLess(<<r.dy, r.dx>>, <<s.dy, s.dx>>)

\* row r comes before row s in the order (name, orientation, piece_index, dx, dy)
BuiltBefore(r, s) ==
    \/ NameLess(r.name, s.name)
    \/ r.name = s.name /\ PointsLess(r.orient, s.orient)
    \/ r.name = s.name /\ r.orient = s.orient
       /\ IntsLess(<<r.index, r.dx, r.dy>>, <<s.index, s.dx, s.dy>>)

\* C6 as stated: rows are added in the order (piece_index, orientation_rank,
\* dy, dx), so every row precedes its successor in that order.
C6_Claimed_IndexOrientDyDx ==
    Built => \A r \in 1..(Len(m) - 1) : ClaimedBefore(m[r], m[r + 1])

\* C6 as amended: rows are added in the order (piece name, normalized point
\* list of the orientation, piece_index, dx, dy): names compare first, the
\* piece index only breaks ties between equal names and equal orientations,
\* and within an orientation dx is the outer and dy the inner loop.
C6_RowsOrderedByNameOrientIndexDxDy ==
    Built => \A r \in 1..(Len(m) - 1) : BuiltBefore(m[r], m[r + 1])

\* rows of two pieces whose names are in the opposite order of their indices,
\* and two rows of one orientation that differ in both dx and dy
C6_Witness ==
    /\ pc = "built"
    /\ \E r, s \in 1..Len(m) :
          r < s /\ m[r].index > m[s].index /\ NameLess(m[r].name, m[s].name)
    /\ \E r, s \in 1..Len(m) :
          /\ r < s /\ m[r].index = m[s].index /\ m[r].orient = m[s].orient
          /\ m[r].dx < m[s].dx /\ m[r].dy > m[s].dy

Ascends(row) == \A k \in 1..(Len(row) - 1) : row[k] < row[k + 1]

\* C7 as stated: every row is in ascending order and ends with the piece column.
C7_Claimed_RowsAscending ==
    Built => \A r \in 1..Len(m) :
                /\ Ascends(m[r].row)
                /\ m[r].row[Len(m[r].row)] = BoardCells + m[r].index

\* the points the placement of row r covers, in the order of the orientation's
\* sorted point list
PlacedPoint(r, k) == [x |-> r.orient[k].x + r.dx, y |-> r.orient[k].y + r.dy]

\* C7 as amended: every row lists the board indices of the covered cells in
\* the order of the orientation's points sorted by (x, y), which need not be
\* ascending index order, followed by the piece column N + piece_index as its
\* last and largest element; the cell indices are distinct and below N.
C7_RowsFollowPointOrder ==
    Built => \A r \in 1..Len(m) :
                LET row == m[r].row
                    n == Len(m[r].orient)
                IN /\ Len(row) = n + 1
                   /\ row[n + 1] = BoardCells + m[r].index
                   /\ \A k \in 1..n :
                         /\ 0 <= row[k] /\ row[k] < BoardCells
                         /\ board.points[row[k] + 1] = PlacedPoint(m[r], k)
                         /\ row[k] < row[n + 1]
                   /\ \A k, j \in 1..n : k # j => row[k] # row[j]
                   /\ \A k \in 1..(n - 1) :
                         PointLess(m[r].orient[k], m[r].orient[k + 1])

\* a row whose cell indices are not ascending
C7_Witness ==
    /\ pc = "built"
    /\ \E r \in 1..Len(m) : ~Ascends(m[r].row) /\ Len(m[r].row) >= 3

----------------------------------------------------------------------------
(* Orientations *)

LTetromino == <<"x", "x", "x", NL, "x">>

\* the distinct normalized point lists stored for piece i (0-based)
OrientationsOf(i) == {u.tile.points : u \in {v \in UniqSet(tiles) : v.index = i}}

HasGame == pc \in {"game", "built", "looping"} \/ (pc = "aborted" /\ op = "solution")

\* the text piece i (0-based) was made from
PieceText(i) ==
    LET ps == SelectSeq(entries, LAMBDA e : e[1] # BoardName) IN ps[i + 1][2]

\* C8 as stated: the eight transforms of the piece "xxx\nx" leave exactly 4
\* distinct normalized point lists.
C8_Claimed_FourOrientations ==
    HasGame => \A i \in 0..(Pieces - 1) :
                  PieceText(i) = LTetromino => Cardinality(OrientationsOf(i)) = 4

\* C8 as amended: the eight transforms of the piece "xxx\nx" leave exactly 8
\* distinct normalized point lists: no two of its transforms coincide.
C8_EightOrientations ==
    HasGame => \A i \in 0..(Pieces - 1) :
                  PieceText(i) = LTetromino => Cardinality(OrientationsOf(i)) = 8

C8_Witness ==
    /\ pc = "built"
    /\ \E i \in 0..(Pieces - 1) : PieceText(i) = LTetromino

----------------------------------------------------------------------------
(* Determinism of the build *)

HashOrders == 0..(HashSeeds - 1)

\* C9: the rows build_matrix produces are the same for every iteration order
\* of the hash set of orientations, so equal inputs give identical matrices
\* (and with them identical solution sequences).
C9_RowsIndependentOfHashOrder ==
    Built => \A seed \in HashOrders : BuildMatrixRows(board, tiles, seed) = m

\* a built game whose hash set is read in different orders under two seeds
C9_Witness ==
    /\ pc = "built"
    /\ Len(m) >= 2
    /\ \E s1, s2 \in HashOrders : HashIter(tiles, s1) # HashIter(tiles, s2)

----------------------------------------------------------------------------
(* The solution stream *)

Exhausted == search.status = "Exhausted"

\* C2: once the search is exhausted a further solve() finds nothing: it
\* returns the count the previous call returned and leaves the stored
\* solutions (and the exhausted search) as they were.
C2_ExhaustedStaysExhausted ==
    [][(pc = "built" /\ Exhausted /\ op' = "solve")
          => (solutions' = solutions /\ ret' = ret /\ ret' = Len(solutions)
              /\ search' = search)]_vars

\* an exhausted game with solutions on which solve() was called again
C2_Witness ==
    /\ pc = "built" /\ Exhausted /\ op = "solve"
    /\ Len(solutions) >= 2
    /\ ret = Len(solutions)

\* the exact covers of the matrix, each as a set of row identifiers, found
\* without any search order: extend `chosen` by a row over the least column
\* still uncovered
RECURSIVE CoversFrom(_, _)
CoversFrom(mat, chosen) ==
    LET covered == UNION {RowCols(mat, r) : r \in chosen}
        open == (0..(mat.n_cols - 1)) \ covered
    IN IF open = {} THEN {chosen}
       ELSE LET c == MinOf(open)
            IN UNION {CoversFrom(mat, chosen \cup {r}) :
                        r \in {q \in RowIds(mat) :
                                 c \in RowCols(mat, q) /\ RowCols(mat, q) \cap covered = {}}}

AllCovers == CoversFrom(Mat, {})

AsSet(sol) == {sol[k] : k \in 1..Len(sol)}

\* the stored solutions are covers, pairwise different
DistinctCovers(sols) ==
    /\ \A s \in 1..Len(sols) : AsSet(sols[s]) \in AllCovers
    /\ \A s \in 1..Len(sols) : Cardinality(AsSet(sols[s])) = Len(sols[s])
    /\ \A s, t \in 1..Len(sols) : s # t => AsSet(sols[s]) # AsSet(sols[t])

Square == <<"x", "x", NL, "x", "x">>
LTromino == <<"x", "x", NL, "x">>
Monomino == <<"x">>

IsScenario1 ==
    /\ Len(entries) = 3
    /\ entries[1] = <<BoardName, Square>>
    /\ entries[2][2] = LTromino
    /\ entries[3][2] = Monomino

\* C3: each solve() adds exactly one new exact cover of the built matrix while
\* a cover is still missing and none afterwards; the stored solutions are
\* always distinct exact covers, and at exhaustion they are all of them.  The
\* board "xx\nxx" with pieces "xx\nx" and "x" ends with exactly 4 solutions.
C3_SolveEnumeratesAllCovers ==
    /\ [](Built => /\ DistinctCovers(solutions)
                   /\ Exhausted => Len(solutions) = Cardinality(AllCovers)
                   /\ (Exhausted /\ IsScenario1) => Len(solutions) = 4)
    /\ [][(pc = "built" /\ op' = "solve")
            => IF Len(solutions) < Cardinality(AllCovers)
               THEN /\ Len(solutions') = Len(solutions) + 1
                    /\ SubSeq(solutions', 1, Len(solutions)) = solutions
                    /\ ret' = Len(solutions')
               ELSE /\ solutions' = solutions
                    /\ ret' = Len(solutions)]_vars

\* scenario 1 solved to exhaustion by solve() calls alone
C3_Witness ==
    /\ pc = "built" /\ Exhausted /\ op = "solve"
    /\ IsScenario1
    /\ Len(solutions) = 4

\* solve() called until the count stops growing; `fuel` caps the calls explored
RECURSIVE SolveUntilStable(_, _, _)
SolveUntilStable(mat, js, fuel) ==
    LET next == JsGameSolve(mat, js)
    IN IF Len(next.solutions) = Len(js.solutions) \/ fuel = 0 THEN next
       ELSE SolveUntilStable(mat, next, fuel - 1)

\* C4: solveAll() terminates, and it leaves the solutions (and returns the
\* count) that repeated solve() calls leave when their count stops growing,
\* from a fresh game, after some solve() calls and after exhaustion alike;
\* no solution is stored twice.
C4_SolveAllEqualsRepeatedSolve ==
    [][(pc = "built" /\ op' = "solveAll")
          => LET byCalls == SolveUntilStable(Mat, [search |-> search,
                                                   solutions |-> solutions], MaxLoop)
             IN /\ pc' = "built"
                /\ solutions' = byCalls.solutions
                /\ ret' = Len(byCalls.solutions)
                /\ Len(solutions') = Cardinality(AllCovers)
                /\ \A s, t \in 1..Len(solutions') :
                      s # t => solutions'[s] # solutions'[t]]_vars

\* solveAll() has completed a game with several solutions
C4_Witness ==
    /\ pc = "built" /\ op = "solveAll"
    /\ Len(solutions) >= 4
    /\ ret = Len(solutions)

----------------------------------------------------------------------------
(* Decoding *)

\* the piece whose selected row covers board cell k (0-based) in solution sol
PieceOver(sol, k) ==
    LET over == {j \in 1..Len(sol) : k \in RowCols(Mat, sol[j]) }
    IN m[sol[CHOOSE j \in over : TRUE] + 1].index

\* C5 as stated: solution(index) returns a vector of length N whose entry k is
\* the index of the piece whose selected row covers board cell k.
C5_Claimed_DecodeGivesPieceIndices ==
    op = "solution"
       => /\ pc = "built"
          /\ Len(decoded) = BoardCells
          /\ \E s \in 1..Len(solutions) :
                \A k \in 0..(BoardCells - 1) : decoded[k + 1] = PieceOver(solutions[s], k)

----------------------------------------------------------------------------
(* Empty boards *)

HasX(text) == \E k \in 1..Len(text) : text[k] = "x"

BoardWithoutX ==
    /\ Len(entries) >= 1
    /\ entries[1][1] = BoardName
    /\ ~HasX(entries[1][2])

\* C10 as stated: a board text without 'x' is built into a Tile and a game
\* without aborting, build_matrix gives a matrix with zero rows, and solving
\* it reports no solutions.
C10_Claimed_EmptyBoardTextIsNoFailure ==
    (BoardWithoutX /\ op # "init")
       => /\ pc # "aborted"
          /\ Len(m) = 0
          /\ solutions = <<>>

----------------------------------------------------------------------------
(* Rows and fitting placements *)

PointSet(t) == {t.points[k] : k \in 1..Len(t.points)}

\* a set of points moved so that its least x and least y are 0
AtOrigin(S) ==
    LET x0 == MinOf({p.x : p \in S})
        y0 == MinOf({p.y : p \in S})
    IN {[x |-> p.x - x0, y |-> p.y - y0] : p \in S}

\* the images of a point set under the eight symmetries of the square
D4Images(S) ==
    { AtOrigin({[x |-> p.x, y |-> p.y] : p \in S}),
      AtOrigin({[x |-> p.y, y |-> -p.x] : p \in S}),
      AtOrigin({[x |-> -p.x, y |-> -p.y] : p \in S}),
      AtOrigin({[x |-> -p.y, y |-> p.x] : p \in S}),
      AtOrigin({[x |-> -p.x, y |-> p.y] : p \in S}),
      AtOrigin({[x |-> p.y, y |-> p.x] : p \in S}),
      AtOrigin({[x |-> p.x, y |-> -p.y] : p \in S}),
      AtOrigin({[x |-> -p.y, y |-> -p.x] : p \in S}) }

Shifted(S, dx, dy) == {[x |-> p.x + dx, y |-> p.y + dy] : p \in S}

\* every way to lay piece i (0-based) on the board: the cell sets of its
\* orientations under every translation, also those one step outside the
\* board's bounding box
FittingPlacements(i) ==
    LET size == TileSize(board)
    IN { c \in { Shifted(S, dx, dy) : S \in D4Images(PointSet(tiles[i + 1])),
                                      dx \in (-1)..size.width,
                                      dy \in (-1)..size.height } :
           c \subseteq BoardPoints(board) }

RowsOf(i) == {r \in 1..Len(m) : m[r].index = i}

\* the rows made from orientation `orient` of piece i at translation (dx, dy)
RowsAt(i, orient, dx, dy) ==
    {r \in RowsOf(i) : m[r].orient = orient /\ m[r].dx = dx /\ m[r].dy = dy}

\* C11: the rows are in one-to-one correspondence with the fitting
\* placements.  For every piece i, every stored orientation and every
\* translation there is exactly one row if all translated cells are board
\* cells and none otherwise; the placements of the rows of piece i are exactly
\* the ways to lay an orientation of the piece on the board, each covered by
\* one row only; each row holds the board indices of its cells followed by
\* column N+i, piece_size+1 entries in all.
C11_RowsAreTheFittingPlacements ==
    Built =>
       /\ \A i \in 0..(Pieces - 1) :
             /\ {m[r].cells : r \in RowsOf(i)} = FittingPlacements(i)
             /\ Cardinality(RowsOf(i)) = Cardinality(FittingPlacements(i))
             /\ \A orient \in OrientationsOf(i) :
                   \A dx \in 0..(TileSize(board).width - 1),
                      dy \in 0..(TileSize(board).height - 1) :
                      LET cells == Shifted({orient[k] : k \in 1..Len(orient)}, dx, dy)
                      IN Cardinality(RowsAt(i, orient, dx, dy))
                            = IF cells \subseteq BoardPoints(board) THEN 1 ELSE 0
       /\ \A r \in 1..Len(m) :
             LET row == m[r].row
                 size == TileLen(tiles[m[r].index + 1])
             IN /\ m[r].index \in 0..(Pieces - 1)
                /\ Len(row) = size + 1
                /\ row[size + 1] = BoardCells + m[r].index
                /\ m[r].cells \subseteq BoardPoints(board)
                /\ {row[k] : k \in 1..size} \subseteq 0..(BoardCells - 1)
                /\ {board.points[row[k] + 1] : k \in 1..size} = m[r].cells
                /\ Cardinality(m[r].cells) = size

\* a built game with two pieces in which a piece has rows for several
\* orientations and also a translation that does not fit
C11_Witness ==
    /\ pc = "built"
    /\ Pieces = 2
    /\ \E i \in 0..(Pieces - 1) :
          /\ \E r, s \in RowsOf(i) : m[r].orient # m[s].orient
          /\ \E orient \in OrientationsOf(i) :
                \E dx \in 0..(TileSize(board).width - 1),
                   dy \in 0..(TileSize(board).height - 1) :
                   RowsAt(i, orient, dx, dy) = {}

====
